---- MODULE Spec2Model ----
(***************************************************************************)
(* Model of the bank account service: the accounts table (part_001), the   *)
(* account entity and request payloads (part_000) and the HTTP handlers    *)
(* and route table (main.go).                                              *)
(*                                                                         *)
(* The accounts table is modelled by the SQL the storage methods send:     *)
(* id SERIAL PRIMARY KEY, email TEXT UNIQUE NOT NULL.  Every statement is  *)
(* one atomic step of the database.  A storage call may fail with a        *)
(* connection error (parameter fail), in which case it changes nothing.    *)
(***************************************************************************)
EXTENDS Naturals, Sequences, FiniteSets, TLC

VARIABLES
    accounts,   \* rows of table accounts
    seq,        \* last value handed out by the sequence behind id SERIAL
    assigned,   \* history: ids returned by successful INSERTs, in order
    req,        \* the HTTP request served last
    resp,       \* what its http.ResponseWriter received
    calls,      \* the storage calls that request made, in order, with results
    inflight    \* SpecConc: the create requests being served concurrently

vars == <<accounts, seq, assigned, req, resp, calls, inflight>>

(***************************************************************************)
(* Bounds of the model.                                                    *)
(***************************************************************************)
MaxSeq == 3
NumWorkers == 2

(***************************************************************************)
(* Input domains.                                                          *)
(***************************************************************************)
CreateEmails == {"a@x.com", ""}
LoginEmails == {"a@x.com", "b@x.com"}
LongPassword == "0123456789012345678901234567890123456789012345678901234567890123456789012"
CreatePasswords == {"secret", LongPassword}
LoginPasswords == {"secret", "wrong", ""}
Names == {"A"}
Numbers == {"001"}
Balances == {100}
UpdateBalances == {0, 100}
IdStrings == {"1", "2", "create", "users"}

(***************************************************************************)
(* Go error values.  NoErr is a nil error.                                 *)
(*                                                                         *)
(* Throughout, a record constructor lists its fields in the order TLC      *)
(* keeps them in (that of their first use in the module), so that a value  *)
(* shared by TLC's workers is never reordered while another reads it.      *)
(***************************************************************************)
NoErr == "nil"
ErrNoRows == "sql: no rows in result set"
ErrUnique == "pq: duplicate key value violates unique constraint \"accounts_email_key\""
ErrConn == "dial tcp 127.0.0.1:5432: connect: connection refused"
ErrDecode == "unexpected end of JSON input"
ErrAtoi == "strconv.Atoi: parsing: invalid syntax"
ErrPasswordTooLong == "bcrypt: password length exceeds 72 bytes"
ErrToken == "token signing failed"

(***************************************************************************)
(* bcrypt.  The hash string carries the cost prefix; comparing recomputes  *)
(* it from the candidate.  The salt is left out: no handler reads it.      *)
(***************************************************************************)
BcryptMaxLen == 72

GenerateFromPassword(password) ==
    IF Len(password) > BcryptMaxLen
    THEN [err |-> ErrPasswordTooLong, hash |-> ""]
    ELSE [err |-> NoErr, hash |-> "$2a$10$" \o password]

CompareHashAndPassword(hash, password) ==
    IF Len(password) <= BcryptMaxLen /\ hash = "$2a$10$" \o password
    THEN NoErr
    ELSE "crypto/bcrypt: hashedPassword is not the hash of the given password"

(***************************************************************************)
(* part_000: the account entity.  ID is the zero value until the store     *)
(* scans the assigned id into it.                                          *)
(***************************************************************************)
Account(id, email, password, name, number, balance) ==
    [ID |-> id, Email |-> email, Password |-> password,
     Name |-> name, Number |-> number, Balance |-> balance]

NewAccount(email, password, name, number, balance) ==
    LET h == GenerateFromPassword(password)
    IN  IF h.err # NoErr
        THEN [err |-> h.err, acc |-> Account(0, "", "", "", "", 0)]
        ELSE [err |-> NoErr,
              acc |-> Account(0, email, h.hash, name, number, balance)]

(***************************************************************************)
(* part_001: the storage methods.  Each takes the table (tbl), and         *)
(* CreateAccount the sequence value (sq), and returns the error together   *)
(* with the table afterwards.                                              *)
(***************************************************************************)

\* Mutant: the table lacks the UNIQUE constraint on email.
CreateAccountNoUnique(tbl, sq, a, fail) ==
    IF fail
    THEN [accounts |-> tbl, seq |-> sq, err |-> ErrConn, acc |-> a]
    ELSE LET stored == [a EXCEPT !.ID = sq + 1]
         IN  [accounts |-> tbl \cup {stored}, seq |-> sq + 1,
              err |-> NoErr, acc |-> stored]

\* Mutant: the id is one more than the largest id in the table, not the
\* next value of the sequence.
CreateAccountReuseId(tbl, sq, a, fail) ==
    LET top == IF tbl = {} THEN 0
               ELSE CHOOSE n \in {r.ID : r \in tbl} : \A r \in tbl : r.ID <= n
    IN  IF fail
        THEN [accounts |-> tbl, seq |-> sq, err |-> ErrConn, acc |-> a]
        ELSE IF \E r \in tbl : r.Email = a.Email
        THEN [accounts |-> tbl, seq |-> sq, err |-> ErrUnique, acc |-> a]
        ELSE LET stored == [a EXCEPT !.ID = top + 1]
             IN  [accounts |-> tbl \cup {stored}, seq |-> top + 1,
                  err |-> NoErr, acc |-> stored]

\* The sequence value is taken before the unique index is checked, so a
\* rejected INSERT still consumes it.
CreateAccount(tbl, sq, a, fail) ==
    IF fail
    THEN [accounts |-> tbl, seq |-> sq, err |-> ErrConn, acc |-> a]
    ELSE IF \E r \in tbl : r.Email = a.Email
    THEN [accounts |-> tbl, seq |-> sq + 1, err |-> ErrUnique, acc |-> a]
    ELSE LET stored == [a EXCEPT !.ID = sq + 1]
         IN  [accounts |-> tbl \cup {stored}, seq |-> sq + 1,
              err |-> NoErr, acc |-> stored]

CheckAuth(tbl, email, password, fail) ==
    IF fail
    THEN "authentication failed: " \o ErrConn
    ELSE IF ~ \E r \in tbl : r.Email = email
    THEN "authentication failed: " \o ErrNoRows
    ELSE LET r == CHOOSE r \in tbl : r.Email = email
         IN  IF CompareHashAndPassword(r.Password, password) # NoErr
             THEN "authentication failed: incorrect password"
             ELSE NoErr

\* SELECT id, name, number, balance: Email and Password stay zero values.
Selected(r) == Account(r.ID, "", "", r.Name, r.Number, r.Balance)

GetUsers(tbl, fail) ==
    IF fail
    THEN [err |-> ErrConn, rows |-> {}]
    ELSE [err |-> NoErr, rows |-> {Selected(r) : r \in tbl}]

\* Exec reports no error when the DELETE matches no row.
DeleteAccount(tbl, id, fail) ==
    IF fail
    THEN [accounts |-> tbl, err |-> ErrConn]
    ELSE [accounts |-> {r \in tbl : r.ID # id}, err |-> NoErr]

UpdateAccount(tbl, a, fail) ==
    IF fail
    THEN [accounts |-> tbl, err |-> ErrConn]
    ELSE [accounts |-> {IF r.ID = a.ID
                        THEN [r EXCEPT !.Name = a.Name, !.Number = a.Number,
                                       !.Balance = a.Balance]
                        ELSE r : r \in tbl},
          err |-> NoErr]

\* The account is returned along with the Scan error.
GetAccountByID(tbl, id, fail) ==
    IF fail
    THEN [err |-> ErrConn, acc |-> Account(0, "", "", "", "", 0)]
    ELSE IF ~ \E r \in tbl : r.ID = id
    THEN [err |-> ErrNoRows, acc |-> Account(0, "", "", "", "", 0)]
    ELSE [err |-> NoErr, acc |-> Selected(CHOOSE r \in tbl : r.ID = id)]

(***************************************************************************)
(* Token service (CreateToken, verifyToken).  A token is the signed claim  *)
(* for an email; verification accepts exactly the well-signed tokens.      *)
(***************************************************************************)
CreateToken(email, fail) ==
    IF fail
    THEN [err |-> ErrToken, token |-> << >>]
    ELSE [err |-> NoErr, token |-> <<"jwt", email>>]

verifyToken(tokenString) ==
    IF Len(tokenString) = 2 /\ tokenString[1] = "jwt"
    THEN NoErr
    ELSE "invalid token"

(***************************************************************************)
(* main.go: the response writer.  The first WriteHeader fixes the status;  *)
(* a Write before any WriteHeader implies 200.                             *)
(***************************************************************************)
NewResponse == [status |-> 0, body |-> << >>, panicked |-> FALSE]

Part(kind, text, rows, token) ==
    [rows |-> rows, token |-> token, kind |-> kind, text |-> text]

ApiError(msg) == Part("ApiError", msg, {}, << >>)

WriteHeader(w, status) ==
    IF w.status = 0 THEN [w EXCEPT !.status = status] ELSE w

Write(w, part) ==
    [WriteHeader(w, 200) EXCEPT !.body = Append(@, part)]

writeJSON(w, status, v) == Write(WriteHeader(w, status), v)

\* fmt.Fprint of a string: an empty string writes no bytes.
Fprint(w, part) ==
    IF part.text = "" /\ part.token = << >>
    THEN WriteHeader(w, 200)
    ELSE Write(w, part)

(***************************************************************************)
(* Requests.  The body is the decoded JSON: ok is FALSE when the decoder   *)
(* returns an error; absent fields decode to zero values.  auth is the     *)
(* Authorization header, byte by byte, the token kept as its two parts.    *)
(***************************************************************************)
Body(ok, email, password, name, number, balance) ==
    [Email |-> email, Password |-> password, Name |-> name,
     Number |-> number, Balance |-> balance, ok |-> ok]

NoBody == Body(FALSE, "", "", "", "", 0)

Request(method, path, auth, body) ==
    [body |-> body, method |-> method, path |-> path, auth |-> auth]

Called(op, err, id) == [err |-> err, id |-> id, op |-> op]

\* The state a handler runs in and leaves behind.
Ctx(w, tbl, sq, cs) == [accounts |-> tbl, seq |-> sq, calls |-> cs, w |-> w]

Return(err, s) == [err |-> err, s |-> s]

Digits ==
    [d \in {"0", "1", "2", "3", "4", "5", "6", "7", "8", "9"} |->
        CASE d = "0" -> 0 [] d = "1" -> 1 [] d = "2" -> 2 [] d = "3" -> 3
          [] d = "4" -> 4 [] d = "5" -> 5 [] d = "6" -> 6 [] d = "7" -> 7
          [] d = "8" -> 8 [] d = "9" -> 9]

\* strconv.Atoi on the one-digit and non-numeric segments the model sends.
Atoi(str) ==
    IF str \in DOMAIN Digits
    THEN [err |-> NoErr, n |-> Digits[str]]
    ELSE [err |-> ErrAtoi, n |-> 0]

(***************************************************************************)
(* main.go: the handlers.  Each takes the context s, the request r, the    *)
(* route variable id (mux.Vars(r)["id"]) and the outcomes nd of what it    *)
(* cannot decide itself (nd.dbFail: the storage call meets a connection    *)
(* error; nd.mintFail: CreateToken fails), and returns its error together  *)
(* with the context it leaves.                                             *)
(***************************************************************************)
LoginMessage == Part("json", "login successful", {}, << >>)

handleLogin(s, r, id, nd) ==
    IF ~ r.body.ok
    THEN Return(ErrDecode, s)
    ELSE LET err == CheckAuth(s.accounts, r.body.Email, r.body.Password, nd.dbFail)
             s1 == [s EXCEPT !.calls = Append(@, Called("CheckAuth", err, 0))]
         IN  IF err # NoErr
             THEN Return(NoErr, [s1 EXCEPT !.w = writeJSON(@, 401, ApiError(err))])
             ELSE LET t == CreateToken(r.body.Email, nd.mintFail)
                      s2 == [s1 EXCEPT !.calls = Append(@, Called("CreateToken", t.err, 0))]
                      w1 == WriteHeader(s2.w, 200)
                      w2 == Fprint(w1, Part("text", "", {}, t.token))
                  IN  Return(NoErr, [s2 EXCEPT !.w = writeJSON(w2, 200, LoginMessage)])

\* The error DeleteAccount returns is encoded as the body of a 200 response.
handleDeleteAccount(s, r, id, nd) ==
    LET conv == Atoi(id)
    IN  IF conv.err # NoErr
        THEN Return(conv.err, s)
        ELSE LET d == DeleteAccount(s.accounts, conv.n, nd.dbFail)
                 v == IF d.err = NoErr
                      THEN Part("null", "", {}, << >>)
                      ELSE Part("error", d.err, {}, << >>)
             IN  Return(NoErr,
                        [s EXCEPT !.accounts = d.accounts,
                                  !.calls = Append(@, Called("DeleteAccount", d.err, conv.n)),
                                  !.w = writeJSON(@, 200, v)])

\* What handleDeleteAccount returns is dropped.
handleGetAccountById(s, r, id, nd) ==
    IF r.method = "GET"
    THEN LET conv == Atoi(id)
         IN  IF conv.err # NoErr
             THEN Return(conv.err, s)
             ELSE LET g == GetAccountByID(s.accounts, conv.n, nd.dbFail)
                      s1 == [s EXCEPT !.calls = Append(@, Called("GetAccountByID", g.err, conv.n))]
                  IN  IF g.err # NoErr
                      THEN Return(g.err, s1)
                      ELSE Return(NoErr,
                                  [s1 EXCEPT !.w = writeJSON(@, 200, Part("account", "", {g.acc}, << >>))])
    ELSE Return(NoErr, handleDeleteAccount(s, r, id, nd).s)

handleGetUsers(s, r, id, nd) ==
    LET g == GetUsers(s.accounts, nd.dbFail)
        s1 == [s EXCEPT !.calls = Append(@, Called("GetUsers", g.err, 0))]
    IN  IF g.err # NoErr
        THEN Return(g.err, s1)
        ELSE Return(NoErr, [s1 EXCEPT !.w = writeJSON(@, 200, Part("accounts", "", g.rows, << >>))])

\* The response encodes the request, not the stored account.
handleCreateAccount(s, r, id, nd) ==
    IF ~ r.body.ok
    THEN Return(ErrDecode, s)
    ELSE LET n == NewAccount(r.body.Email, r.body.Password, r.body.Name,
                             r.body.Number, r.body.Balance)
         IN  IF n.err # NoErr
             THEN Return(n.err, s)
             ELSE LET c == CreateAccount(s.accounts, s.seq, n.acc, nd.dbFail)
                      s1 == [s EXCEPT !.accounts = c.accounts, !.seq = c.seq,
                                      !.calls = Append(@, Called("CreateAccount", c.err, c.acc.ID))]
                  IN  IF c.err # NoErr
                      THEN Return(c.err, s1)
                      ELSE Return(NoErr,
                                  [s1 EXCEPT !.w = writeJSON(@, 200,
                                      Part("CreateAccountRequest", "", {r.body}, << >>))])

handleAccount(s, r, id, nd) ==
    IF r.method = "GET"
    THEN handleGetAccountById(s, r, id, nd)
    ELSE IF r.method = "POST"
    THEN handleCreateAccount(s, r, id, nd)
    ELSE Return("unsupported method", s)

handleTransfer(s, r, id, nd) == Return(NoErr, s)

(***************************************************************************)
(* main.go: the wrappers and the route table of Run.                       *)
(***************************************************************************)
Call(fn, s, r, id, nd) ==
    CASE fn = "handleAccount" -> handleAccount(s, r, id, nd)
      [] fn = "handleLogin" -> handleLogin(s, r, id, nd)
      [] fn = "handleGetUsers" -> handleGetUsers(s, r, id, nd)
      [] fn = "handleGetAccountById" -> handleGetAccountById(s, r, id, nd)
      [] fn = "handleCreateAccount" -> handleCreateAccount(s, r, id, nd)
      [] fn = "handleTransfer" -> handleTransfer(s, r, id, nd)

\* What the wrappers do with a handler's return h.
OnReturn(h) ==
    IF h.err # NoErr
    THEN [h.s EXCEPT !.w = writeJSON(@, 400, ApiError(h.err))]
    ELSE h.s

makeHandler(fn, s, r, id, nd) == OnReturn(Call(fn, s, r, id, nd))

BearerPrefix == <<"B", "e", "a", "r", "e", "r", " ">>

\* Mutant: the result of verifyToken is not checked.
ProtectedHandlerNoVerify(fn, s, r, id, nd) ==
    IF r.auth = << >>
    THEN [s EXCEPT !.w = Fprint(WriteHeader(@, 401),
                                Part("text", "Missing authorization header", {}, << >>))]
    ELSE IF Len(r.auth) < Len(BearerPrefix)
    THEN [s EXCEPT !.w.panicked = TRUE]
    ELSE OnReturn(Call(fn, s, r, id, nd))

\* authHeader[len("Bearer "):] panics on a header shorter than the prefix;
\* net/http recovers the panic and drops the connection.
ProtectedHandler(fn, s, r, id, nd) ==
    IF r.auth = << >>
    THEN [s EXCEPT !.w = Fprint(WriteHeader(@, 401),
                                Part("text", "Missing authorization header", {}, << >>))]
    ELSE IF Len(r.auth) < Len(BearerPrefix)
    THEN [s EXCEPT !.w.panicked = TRUE]
    ELSE LET tokenString == SubSeq(r.auth, Len(BearerPrefix) + 1, Len(r.auth))
             err == verifyToken(tokenString)
         IN  IF err # NoErr
             THEN [s EXCEPT !.w = Fprint(WriteHeader(@, 401),
                                         Part("text", "Invalid token: " \o err, {}, << >>))]
             ELSE OnReturn(Call(fn, s, r, id, nd))

Route(path, methods, wrapper, fn) ==
    [path |-> path, fn |-> fn, methods |-> methods, wrapper |-> wrapper]

Routes ==
    << Route(<<"account">>, {"GET", "POST"}, "makeHandler", "handleAccount"),
       Route(<<"login">>, {"POST"}, "makeHandler", "handleLogin"),
       Route(<<"account", "users">>, {"GET"}, "makeHandler", "handleGetUsers"),
       Route(<<"account", "{id}">>, {"GET", "DELETE"}, "ProtectedHandler", "handleGetAccountById"),
       Route(<<"account", "create">>, {"POST"}, "makeHandler", "handleCreateAccount"),
       Route(<<"transfer">>, {"POST"}, "makeHandler", "handleTransfer") >>

\* A template segment {id} matches any segment.
PathMatches(template, path) ==
    /\ Len(template) = Len(path)
    /\ \A i \in 1..Len(path) : template[i] = "{id}" \/ template[i] = path[i]

RouteMatches(rt, r) == PathMatches(rt.path, r.path) /\ r.method \in rt.methods

\* mux.Vars(r)["id"]: the segment under {id}, or "" when the route has none.
Vars(rt, r) ==
    IF \E i \in 1..Len(rt.path) : rt.path[i] = "{id}"
    THEN r.path[CHOOSE i \in 1..Len(rt.path) : rt.path[i] = "{id}"]
    ELSE ""

\* The router takes the first route, in registration order, whose path and
\* method both match: its index in Routes, or 0 when there is none.
Routed(r) ==
    LET hits == {i \in 1..Len(Routes) : RouteMatches(Routes[i], r)}
    IN  IF hits = {} THEN 0 ELSE CHOOSE i \in hits : \A j \in hits : i <= j

\* With no route, the router answers 405 if some path matched, else 404.
ServeHTTP(tbl, sq, r, nd) ==
    LET s == Ctx(NewResponse, tbl, sq, << >>)
    IN  IF Routed(r) = 0
        THEN IF \E i \in 1..Len(Routes) : PathMatches(Routes[i].path, r.path)
             THEN [s EXCEPT !.w = WriteHeader(@, 405)]
             ELSE [s EXCEPT !.w = Fprint(WriteHeader(@, 404),
                                         Part("text", "404 page not found", {}, << >>))]
        ELSE LET rt == Routes[Routed(r)]
             IN  IF rt.wrapper = "ProtectedHandler"
                 THEN ProtectedHandler(rt.fn, s, r, Vars(rt, r), nd)
                 ELSE makeHandler(rt.fn, s, r, Vars(rt, r), nd)

(***************************************************************************)
(* The server: one action per route, each serving one whole request.       *)
(***************************************************************************)
CreateBodies ==
    {Body(TRUE, e, p, n, m, b) :
        e \in CreateEmails, p \in CreatePasswords, n \in Names, m \in Numbers, b \in Balances}
    \cup {NoBody}

LoginBodies ==
    {Body(TRUE, e, p, "", "", 0) : e \in LoginEmails, p \in LoginPasswords} \cup {NoBody}

AuthHeaders ==
    { << >>,
      <<"B", "e", "a", "r", "e", "r">>,
      BearerPrefix \o <<"bad">>,
      BearerPrefix \o CreateToken("a@x.com", FALSE).token }

\* Only handleLogin mints a token.
Outcomes == [dbFail : BOOLEAN, mintFail : {FALSE}]
LoginOutcomes == [dbFail : BOOLEAN, mintFail : BOOLEAN]

NoRequest == Request("", << >>, << >>, NoBody)

Idle == [err |-> NoErr, acc |-> Account(0, "", "", "", "", 0), body |-> NoBody,
         w |-> NewResponse, pc |-> "idle"]

\* The ids the successful CreateAccount calls of a request returned.
NewIds(cs) ==
    LET ok == SelectSeq(cs, LAMBDA c : c.op = "CreateAccount" /\ c.err = NoErr)
    IN  [i \in 1..Len(ok) |-> ok[i].id]

\* The server's state after a request r that left context out.
Served(r, out) ==
    /\ out.seq <= MaxSeq
    /\ accounts' = out.accounts
    /\ seq' = out.seq
    /\ assigned' = assigned \o NewIds(out.calls)
    /\ req' = r
    /\ resp' = out.w
    /\ calls' = out.calls
    /\ UNCHANGED inflight

Serve(r, nd) == Served(r, ServeHTTP(accounts, seq, r, nd))

\* One action per entry of Routes, for the requests the router gives it.
AccountRoute ==
    \E m \in {"GET", "POST"}, b \in CreateBodies, nd \in Outcomes :
        /\ m = "GET" => b = NoBody
        /\ Routed(Request(m, <<"account">>, << >>, b)) = 1
        /\ Serve(Request(m, <<"account">>, << >>, b), nd)

Login ==
    \E b \in LoginBodies, nd \in LoginOutcomes :
        /\ Routed(Request("POST", <<"login">>, << >>, b)) = 2
        /\ Serve(Request("POST", <<"login">>, << >>, b), nd)

UsersRoute ==
    \E nd \in Outcomes :
        /\ Routed(Request("GET", <<"account", "users">>, << >>, NoBody)) = 3
        /\ Serve(Request("GET", <<"account", "users">>, << >>, NoBody), nd)

\* {id} also takes the GET of /account/create and the DELETE of /account/users.
AccountIdRoute ==
    \E m \in {"GET", "DELETE"}, id \in IdStrings, a \in AuthHeaders, nd \in Outcomes :
        /\ Routed(Request(m, <<"account", id>>, a, NoBody)) = 4
        /\ Serve(Request(m, <<"account", id>>, a, NoBody), nd)

CreateAccountRoute ==
    \E b \in CreateBodies, nd \in Outcomes :
        /\ Routed(Request("POST", <<"account", "create">>, << >>, b)) = 5
        /\ Serve(Request("POST", <<"account", "create">>, << >>, b), nd)

TransferRoute ==
    \E nd \in Outcomes :
        /\ Routed(Request("POST", <<"transfer">>, << >>, NoBody)) = 6
        /\ Serve(Request("POST", <<"transfer">>, << >>, NoBody), nd)

\* Requests no route takes.
OtherRoute ==
    \E r \in {Request("DELETE", <<"account">>, << >>, NoBody),
              Request("GET", <<"login">>, << >>, NoBody),
              Request("GET", <<"accounts">>, << >>, NoBody)},
       nd \in Outcomes :
        /\ Routed(r) = 0
        /\ Serve(r, nd)

\* Storage.UpdateAccount: part of the storage interface, called by no handler.
Update ==
    \E id \in 1..MaxSeq, n \in Names, m \in Numbers, b \in UpdateBalances,
       fail \in BOOLEAN :
        LET u == UpdateAccount(accounts, Account(id, "", "", n, m, b), fail)
        IN  /\ accounts' = u.accounts
            /\ req' = NoRequest
            /\ resp' = NewResponse
            /\ calls' = <<Called("UpdateAccount", u.err, id)>>
            /\ UNCHANGED <<seq, assigned, inflight>>

Init ==
    /\ accounts = {}
    /\ seq = 0
    /\ assigned = << >>
    /\ req = NoRequest
    /\ resp = NewResponse
    /\ calls = << >>
    /\ inflight = [w \in 1..NumWorkers |-> Idle]

Next ==
    \/ AccountRoute
    \/ Login
    \/ UsersRoute
    \/ AccountIdRoute
    \/ CreateAccountRoute
    \/ TransferRoute
    \/ OtherRoute
    \/ Update

Spec == Init /\ [][Next]_vars

(***************************************************************************)
(* Concurrent registration.  net/http serves every request on a goroutine  *)
(* of its own, so each worker runs handleCreateAccount step by step: the   *)
(* decode, NewAccount, the INSERT (one atomic statement) and the response. *)
(***************************************************************************)
ConcEmails == {"a@x.com", "b@x.com"}

ConcBodies ==
    {Body(TRUE, e, p, "A", "001", 100) : e \in ConcEmails, p \in CreatePasswords}
    \cup {NoBody}

Workers == 1..NumWorkers

\* Tables the server may hold when the requests arrive.
ConcStores ==
    { [accounts |-> {}, seq |-> 0, assigned |-> << >>],
      [accounts |-> {Account(1, "a@x.com", GenerateFromPassword("secret").hash, "A", "001", 100)},
       seq |-> 1, assigned |-> <<1>>] }

InitConc ==
    /\ \E st \in ConcStores :
        /\ accounts = st.accounts
        /\ seq = st.seq
        /\ assigned = st.assigned
    /\ req = NoRequest
    /\ resp = NewResponse
    /\ calls = << >>
    /\ inflight = [k \in Workers |-> Idle]

Decode(k) ==
    /\ inflight[k].pc = "idle"
    /\ \E b \in ConcBodies :
        inflight' = [inflight EXCEPT ![k].body = b,
                        ![k].err = IF b.ok THEN NoErr ELSE ErrDecode,
                        ![k].pc = IF b.ok THEN "decoded" ELSE "returned"]
    /\ UNCHANGED <<accounts, seq, assigned, req, resp, calls>>

\* The worker's record after NewAccount returned n.
Built(k, n) ==
    inflight' = [inflight EXCEPT ![k].acc = n.acc, ![k].err = n.err,
                    ![k].pc = IF n.err = NoErr THEN "built" ELSE "returned"]

Build(k) ==
    /\ inflight[k].pc = "decoded"
    /\ Built(k, NewAccount(inflight[k].body.Email, inflight[k].body.Password,
                           inflight[k].body.Name, inflight[k].body.Number,
                           inflight[k].body.Balance))
    /\ UNCHANGED <<accounts, seq, assigned, req, resp, calls>>

\* The table and the worker's record after CreateAccount returned c.
Inserted(k, c) ==
    /\ accounts' = c.accounts
    /\ seq' = c.seq
    /\ assigned' = IF c.err = NoErr THEN Append(assigned, c.acc.ID) ELSE assigned
    /\ inflight' = [inflight EXCEPT ![k].acc = c.acc, ![k].err = c.err,
                       ![k].pc = IF c.err = NoErr THEN "stored" ELSE "returned"]

Insert(k) ==
    /\ inflight[k].pc = "built"
    /\ \E fail \in BOOLEAN :
        Inserted(k, CreateAccount(accounts, seq, inflight[k].acc, fail))
    /\ UNCHANGED <<req, resp, calls>>

Respond(k) ==
    /\ inflight[k].pc \in {"stored", "returned"}
    /\ inflight' = [inflight EXCEPT ![k].pc = "done",
           ![k].w = IF inflight[k].pc = "stored"
                    THEN writeJSON(@, 200,
                             Part("CreateAccountRequest", "", {inflight[k].body}, << >>))
                    ELSE writeJSON(@, 400, ApiError(inflight[k].err))]
    /\ UNCHANGED <<accounts, seq, assigned, req, resp, calls>>

NextConc ==
    \E k \in Workers :
        \/ Decode(k)
        \/ Build(k)
        \/ Insert(k)
        \/ Respond(k)

SpecConc == InitConc /\ [][NextConc]_vars

(***************************************************************************)
(* Properties.                                                             *)
(***************************************************************************)
Range(f) == {f[i] : i \in DOMAIN f}

Made(cs, op) == {c \in Range(cs) : c.op = op}

IsRegister(r) ==
    r.method = "POST" /\ r.path \in {<<"account">>, <<"account", "create">>}

IsLogin(r) == r.method = "POST" /\ r.path = <<"login">>

IsProtected(r) ==
    /\ Routed(r) # 0
    /\ Routes[Routed(r)].wrapper = "ProtectedHandler"

Held(tbl, email) == \E a \in tbl : a.Email = email

\* C1: the table never holds two accounts with one email, and a
\* CreateAccount whose email is already held fails (with the unique
\* violation, or with the connection error), is answered 400 with that
\* error, and leaves the table as it was.
C1_UniqueEmail ==
    [][ /\ \A a, b \in accounts' : a.Email = b.Email => a = b
        /\ \A c \in Made(calls', "CreateAccount") :
              Held(accounts, req'.body.Email) =>
                  /\ c.err \in {ErrUnique, ErrConn}
                  /\ accounts' = accounts
                  /\ resp'.status = 400
                  /\ resp'.body = <<ApiError(c.err)>> ]_vars

C1_Witness ==
    /\ IsRegister(req)
    /\ Held(accounts, req.body.Email)
    /\ \E c \in Made(calls, "CreateAccount") : c.err = ErrUnique
    /\ resp.status = 400

\* C2: of the concurrent create requests for one email that no account
\* held when they arrived, those whose INSERT the database answered
\* comprise exactly one success, answered 200, and otherwise unique
\* violations, answered 400; the table never holds two accounts with
\* that email.
Answered(k) ==
    /\ inflight[k].pc \in {"stored", "returned", "done"}
    /\ inflight[k].err \in {NoErr, ErrUnique}

Preexisting == {a \in accounts : \A k \in Workers : inflight[k].acc.ID # a.ID}

C2_ExactlyOneWins ==
    \A e \in ConcEmails :
        LET ws == {k \in Workers : Answered(k) /\ inflight[k].body.Email = e}
            won == {k \in ws : inflight[k].err = NoErr}
        IN  /\ Cardinality({a \in accounts : a.Email = e}) <= 1
            /\ (ws # {} /\ ~ Held(Preexisting, e)) => Cardinality(won) = 1
            /\ \A k \in ws :
                  inflight[k].pc = "done" =>
                      IF k \in won
                      THEN inflight[k].w.status = 200
                      ELSE /\ inflight[k].w.status = 400
                           /\ inflight[k].w.body = <<ApiError(ErrUnique)>>

C2_Witness ==
    \E j, k \in Workers :
        /\ j # k
        /\ inflight[j].pc = "done" /\ inflight[k].pc = "done"
        /\ inflight[j].body.Email = inflight[k].body.Email
        /\ ~ Held(Preexisting, inflight[j].body.Email)
        /\ inflight[j].err = NoErr
        /\ inflight[k].err = ErrUnique

LoginRequest(email, password) ==
    Request("POST", <<"login">>, << >>, Body(TRUE, email, password, "", "", 0))

Healthy == [dbFail |-> FALSE, mintFail |-> FALSE]

\* C3: on any table, a login with a registered email and a wrong password
\* and a login with an email no account holds get the same response,
\* status and body.
C3_SameFailure ==
    \A e1, e2 \in LoginEmails, p \in LoginPasswords :
        ( /\ Held(accounts, e1)
          /\ CheckAuth(accounts, e1, p, FALSE) # NoErr
          /\ ~ Held(accounts, e2) )
        => ServeHTTP(accounts, seq, LoginRequest(e1, p), Healthy).w
             = ServeHTTP(accounts, seq, LoginRequest(e2, p), Healthy).w

\* C4: a decoded login request whose credential check succeeded is answered
\* 200 with the token minted for its email; any other is answered 401 with
\* no token, and no token was minted for it.
C4_TokenIffAuthenticated ==
    (IsLogin(req) /\ req.body.ok) =>
        IF \E c \in Made(calls, "CheckAuth") : c.err = NoErr
        THEN /\ resp.status = 200
             /\ \E part \in Range(resp.body) :
                   part.token = CreateToken(req.body.Email, FALSE).token
        ELSE /\ resp.status = 401
             /\ \A part \in Range(resp.body) : part.token = << >>
             /\ Made(calls, "CreateToken") = {}

\* C5: a successful registration is answered with the created entity
\* carrying the id the store assigned, fetching that id gives the request's
\* name, number and balance, and the stored secret is not the request's
\* password.
C5_RegisterReturnsEntity ==
    \A c \in Made(calls, "CreateAccount") :
        (IsRegister(req) /\ c.err = NoErr) =>
            /\ resp.status = 200
            /\ \E part \in Range(resp.body) :
                  \E x \in part.rows : "ID" \in DOMAIN x /\ x.ID = c.id
            /\ LET got == GetAccountByID(accounts, c.id, FALSE)
               IN  /\ got.err = NoErr
                   /\ got.acc.Name = req.body.Name
                   /\ got.acc.Number = req.body.Number
                   /\ got.acc.Balance = req.body.Balance
            /\ \A a \in accounts : a.ID = c.id => a.Password # req.body.Password

\* C6: a DeleteAccount the database answered, for an id no stored account
\* has, is not answered as a success, and leaves the table as it was.
C6_DeleteMissingIsNotFound ==
    [][ \A c \in Made(calls', "DeleteAccount") :
            (c.err # ErrConn /\ \A a \in accounts : a.ID # c.id) =>
                /\ c.err # NoErr
                /\ resp'.status # 200
                /\ accounts' = accounts ]_vars

\* C7: the ids the store has assigned are pairwise different, whatever was
\* deleted since, every stored id is one of them, and no step changes the
\* id of the account stored under an email.
C7_IdsNeverReused ==
    [][ /\ \A i, j \in 1..Len(assigned') : assigned'[i] = assigned'[j] => i = j
        /\ \A a \in accounts' : a.ID \in Range(assigned')
        /\ \A c \in Made(calls', "CreateAccount") :
              c.err = NoErr => c.id \notin Range(assigned)
        /\ \A a \in accounts, b \in accounts' : a.Email = b.Email => a.ID = b.ID ]_vars

C7_Witness ==
    /\ \E c \in Made(calls, "CreateAccount") : c.err = NoErr
    /\ \E i \in 1..Len(assigned) : \A a \in accounts : a.ID # assigned[i]
    /\ Len(assigned) >= 2

\* C8: a register, login, fetch, list or delete request whose storage call
\* met a connection error is answered with a failure status.
C8_StoreFailureSurfaced ==
    \A c \in Range(calls) :
        ( /\ c.op \in {"CreateAccount", "CheckAuth", "GetAccountByID",
                       "GetUsers", "DeleteAccount"}
          /\ c.err \in {ErrConn, "authentication failed: " \o ErrConn} )
        => resp.status >= 400

\* C9: a registration request that does not decode, or whose email or
\* password is empty, is answered 400 without any storage call.
C9_InvalidRejected ==
    ( /\ IsRegister(req)
      /\ (~ req.body.ok \/ req.body.Email = "" \/ req.body.Password = "") )
    => (calls = << >> /\ resp.status = 400)

\* C10: GetAccountByID and DeleteAccount are called only for a request whose
\* Authorization header carries a token that verifies; a request to the
\* protected route without the header, or with a token that does not
\* verify, is answered 401 and makes no storage call.
Verified(r) ==
    /\ Len(r.auth) >= Len(BearerPrefix)
    /\ verifyToken(SubSeq(r.auth, Len(BearerPrefix) + 1, Len(r.auth))) = NoErr

====
